---- MODULE Spec2Model ----
(***************************************************************************)
(* State-machine model of experiment_GAN/app.py: the GAN training script.  *)
(* One action per statement group of train(); the program counter pc names *)
(* the source line about to execute.  Tensors are modelled by what the     *)
(* script can observe of them: the number of rows of a batch and where     *)
(* each row came from, the entries of a label vector (in tenths, so 0.9 is *)
(* 9 and 1.0 is 10), and a version number for each network's parameters    *)
(* that every optimizer update of that network advances.                   *)
(***************************************************************************)
EXTENDS Integers, Sequences, FiniteSets, TLC

VARIABLES
    pc,               \* source line about to execute, or idle / done / raised
    entry,            \* how train() was entered: "none", "call" or "main"
    supplied,         \* number of samples mnist.load_data() hands back
    epochs,           \* train() parameter
    batch_size,       \* train() parameter
    x_rows,           \* x_train.shape[0] after load_minst_data()
    batch_count,      \* line 110
    e,                \* epoch loop variable (line 118)
    b,                \* iterations of the batch loop started in this epoch
    created,          \* number of Adam instances constructed so far
    adam,             \* the instance bound to the local name adam (0: unbound)
    optimizer,        \* network -> Adam instance it was compiled with (0: none)
    trainable,        \* network -> its trainable attribute
    collected,        \* compiled model -> networks whose weights it collected
    gen_params,       \* version of the Generator's parameters
    dis_params,       \* version of the Discriminator's parameters
    noise,            \* local noise
    image_batch,      \* local image_batch
    generated_images, \* local generated_images
    X,                \* local X
    y_dis,            \* local y_dis
    y_gen,            \* local y_gen
    log,              \* history: events of the current batch step, in order
    toggles,          \* history: assignments to discriminator.trainable, this batch
    dsteps,           \* history: discriminator.train_on_batch calls so far
    gsteps,           \* history: gan.train_on_batch calls so far
    epoch_batches,    \* history: batch steps completed in the current epoch
    rendered,         \* history: epochs handed to plot_generated_images, in order
    files             \* epochs whose image file exists

vars == <<pc, entry, supplied, epochs, batch_size, x_rows, batch_count, e, b, created,
          adam, optimizer, trainable, collected, gen_params, dis_params, noise,
          image_batch, generated_images, X, y_dis, y_gen, log, toggles, dsteps,
          gsteps, epoch_batches, rendered, files>>

ctl == <<entry, supplied, epochs, batch_size, x_rows, batch_count, e, b>>
nets == <<created, adam, optimizer, trainable, collected, gen_params, dis_params>>
data == <<noise, image_batch, generated_images, X, y_dis, y_gen>>
hist == <<log, toggles, dsteps, gsteps, epoch_batches, rendered, files>>

----------------------------------------------------------------------------
(* Program constants *)

TrainRows == 60000
PixelsPerRow == 784
RawSide == 28
MainEpochs == 400
MainBatchSize == 128
CheckpointPeriod == 20
RealLabel == 9
OnesLabel == 10

(* Bounds of the explored inputs *)

MaxEpochs == 45
MaxSmallBatch == 2

Networks == {"generator", "discriminator"}
Models == {"generator", "discriminator", "gan"}

(* The calls explored: train(E, B) for the pairs below, and the script's own *)
(* entry point.  SmokeRows is the size of the small synthetic dataset.  The  *)
(* entry point's run over the full dataset (400 epochs of 468 batch steps)   *)
(* is beyond what is explored: Next takes Main only when the provider hands  *)
(* back the small dataset, and the training loop is explored through the     *)
(* calls of Calls.                                                           *)
SmokeRows == 4

Supplies == {TrainRows, SmokeRows}

Calls ==
    {<<E, TrainRows + 1>> : E \in 0..MaxEpochs}
        \cup {<<E, MainBatchSize>> : E \in {0, 1, CheckpointPeriod + 1}}
        \cup {<<1, B>> : B \in 0..MaxSmallBatch}

----------------------------------------------------------------------------
(* Array helpers *)

\* np.zeros(n) / np.ones(n), in tenths
Zeros(n) == [i \in 1..n |-> 0]
Ones(n) == [i \in 1..n |-> OnesLabel]

\* y[:k] = v
AssignPrefix(y, k, v) == [i \in 1..Len(y) |-> IF i <= k THEN v ELSE y[i]]

\* (variant: the two operands in the other order)
Concatenate_Swapped(a, c) == c \o a

\* np.concatenate([a, c]) along axis 0
Concatenate(a, c) == a \o c

\* np.random.normal(0, 1, size=[n, random_dim]): n rows of noise
NormalRows(n) == [i \in 1..n |-> "z"]

\* x_train[np.random.randint(0, rows, size=n)]: n rows taken from the dataset
SampleRows(n) == [i \in 1..n |-> "real"]

\* generator.predict(z): one generated row per row of z
Predict(z) == [i \in 1..Len(z) |-> "fake"]

\* (variant: rounding up instead of truncating)
IntDiv_Ceil(n, d) == (n + d - 1) \div d

\* int(n / d) for n >= 0, d > 0
IntDiv(n, d) == n \div d

\* ndarray.reshape(rows, cols) of an array of `elements` numbers succeeds
\* exactly when the element count is kept
ReshapeOk(elements, rows, cols) == elements = rows * cols

\* (variant: every model reaches both networks' weights)
Layers_Whole(m) == {"generator", "discriminator"}

\* the networks a compiled model is made of
Layers(m) == IF m = "gan" THEN {"generator", "discriminator"} ELSE {m}

\* model.compile(): the weights of the currently trainable networks are collected
Compile(m, flags) == {n \in Layers(m) : flags[n]}

\* the networks one train_on_batch call on model m may update: the framework
\* either uses the weights collected at compile time or re-reads the flags
UpdateSets(m) == {collected[m], {n \in Layers(m) : trainable[n]}}

\* (variant: the first epoch is not a checkpoint)
IsCheckpoint_Periodic(ep) == ep % CheckpointPeriod = 0

\* e == 1 or e % 20 == 0
IsCheckpoint(ep) == ep = 1 \/ ep % CheckpointPeriod = 0

----------------------------------------------------------------------------
Init ==
    /\ pc = "idle"
    /\ entry = "none"
    /\ supplied \in Supplies
    /\ epochs = 0
    /\ batch_size = 0
    /\ x_rows = 0
    /\ batch_count = 0
    /\ e = 0
    /\ b = 0
    /\ created = 0
    /\ adam = 0
    /\ optimizer = [m \in Models |-> 0]
    /\ trainable = [n \in Networks |-> TRUE]
    /\ collected = [m \in Models |-> {}]
    /\ gen_params = 0
    /\ dis_params = 0
    /\ noise = <<>>
    /\ image_batch = <<>>
    /\ generated_images = <<>>
    /\ X = <<>>
    /\ y_dis = <<>>
    /\ y_gen = <<>>
    /\ log = <<>>
    /\ toggles = 0
    /\ dsteps = 0
    /\ gsteps = 0
    /\ epoch_batches = 0
    /\ rendered = <<>>
    /\ files = {}

\* a caller invokes train(E, B)
TrainCall(E, B) ==
    /\ pc = "idle"
    /\ entry' = "call"
    /\ epochs' = E
    /\ batch_size' = B
    /\ pc' = "L108"
    /\ UNCHANGED <<supplied, x_rows, batch_count, e, b>>
    /\ UNCHANGED <<nets, data, hist>>

\* line 108: load_minst_data() (lines 23-31)
LoadData ==
    /\ pc = "L108"
    /\ IF ReshapeOk(supplied * RawSide * RawSide, TrainRows, PixelsPerRow)
          THEN /\ x_rows' = TrainRows
               /\ pc' = "L110"
          ELSE /\ x_rows' = x_rows
               /\ pc' = "raised"
    /\ UNCHANGED <<entry, supplied, epochs, batch_size, batch_count, e, b>>
    /\ UNCHANGED <<nets, data, hist>>

\* line 110
BatchCount ==
    /\ pc = "L110"
    /\ IF batch_size = 0
          THEN /\ batch_count' = batch_count
               /\ pc' = "raised"
          ELSE /\ batch_count' = IntDiv(x_rows, batch_size)
               /\ pc' = "L113"
    /\ UNCHANGED <<entry, supplied, epochs, batch_size, x_rows, e, b>>
    /\ UNCHANGED <<nets, data, hist>>

\* line 113: adam = get_optimizer() (lines 35-36)
GetOptimizer ==
    /\ pc = "L113"
    /\ created' = created + 1
    /\ adam' = created + 1
    /\ pc' = "L114"
    /\ UNCHANGED <<optimizer, trainable, collected, gen_params, dis_params>>
    /\ UNCHANGED <<ctl, data, hist>>

\* line 114: generator = get_generator(adam) (lines 39-52)
GetGenerator ==
    /\ pc = "L114"
    /\ optimizer' = [optimizer EXCEPT !["generator"] = adam]
    /\ collected' = [collected EXCEPT !["generator"] = Compile("generator", trainable)]
    /\ gen_params' = 1
    /\ pc' = "L115"
    /\ UNCHANGED <<created, adam, trainable, dis_params>>
    /\ UNCHANGED <<ctl, data, hist>>

\* line 115: discriminator = get_discriminator(adam) (lines 55-71)
GetDiscriminator ==
    /\ pc = "L115"
    /\ optimizer' = [optimizer EXCEPT !["discriminator"] = adam]
    /\ collected' = [collected EXCEPT !["discriminator"] = Compile("discriminator", trainable)]
    /\ dis_params' = 1
    /\ pc' = "L116"
    /\ UNCHANGED <<created, adam, trainable, gen_params>>
    /\ UNCHANGED <<ctl, data, hist>>

\* line 116: gan = get_gan_network(discriminator, random_dim, generator, adam)
\* (lines 74-88)
GetGanNetwork ==
    /\ pc = "L116"
    /\ trainable' = [trainable EXCEPT !["discriminator"] = FALSE]
    /\ optimizer' = [optimizer EXCEPT !["gan"] = adam]
    /\ collected' = [collected EXCEPT !["gan"] = Compile("gan", trainable')]
    /\ pc' = "L118"
    /\ UNCHANGED <<created, adam, gen_params, dis_params>>
    /\ UNCHANGED <<ctl, data, hist>>

\* (variant: range(1, epochs + 2))
EpochLoop_OneMore ==
    /\ pc = "L118"
    /\ IF e < epochs + 1
          THEN /\ e' = e + 1
               /\ b' = 0
               /\ epoch_batches' = 0
               /\ pc' = "L120"
          ELSE /\ UNCHANGED <<e, b, epoch_batches>>
               /\ pc' = "done"
    /\ UNCHANGED <<entry, supplied, epochs, batch_size, x_rows, batch_count>>
    /\ UNCHANGED <<log, toggles, dsteps, gsteps, rendered, files>>
    /\ UNCHANGED <<nets, data>>

\* line 118: for e in range(1, epochs + 1)
EpochLoop ==
    /\ pc = "L118"
    /\ IF e < epochs
          THEN /\ e' = e + 1
               /\ b' = 0
               /\ epoch_batches' = 0
               /\ pc' = "L120"
          ELSE /\ UNCHANGED <<e, b, epoch_batches>>
               /\ pc' = "done"
    /\ UNCHANGED <<entry, supplied, epochs, batch_size, x_rows, batch_count>>
    /\ UNCHANGED <<log, toggles, dsteps, gsteps, rendered, files>>
    /\ UNCHANGED <<nets, data>>

\* line 120: for _ in tqdm(range(batch_count))
BatchLoop ==
    /\ pc = "L120"
    /\ IF b < batch_count
          THEN /\ b' = b + 1
               /\ log' = <<>>
               /\ toggles' = 0
               /\ pc' = "L122"
          ELSE /\ UNCHANGED <<b, log, toggles>>
               /\ pc' = "L144"
    /\ UNCHANGED <<entry, supplied, epochs, batch_size, x_rows, batch_count, e>>
    /\ UNCHANGED <<dsteps, gsteps, epoch_batches, rendered, files>>
    /\ UNCHANGED <<nets, data>>

\* lines 122-123
DrawBatch ==
    /\ pc = "L122"
    /\ noise' = NormalRows(batch_size)
    /\ image_batch' = SampleRows(batch_size)
    /\ log' = Append(log, "noise")
    /\ pc' = "L126"
    /\ UNCHANGED <<generated_images, X, y_dis, y_gen>>
    /\ UNCHANGED <<toggles, dsteps, gsteps, epoch_batches, rendered, files>>
    /\ UNCHANGED <<ctl, nets>>

\* line 126
GeneratorPredict ==
    /\ pc = "L126"
    /\ generated_images' = Predict(noise)
    /\ log' = Append(log, "predict")
    /\ pc' = "L127"
    /\ UNCHANGED <<noise, image_batch, X, y_dis, y_gen>>
    /\ UNCHANGED <<toggles, dsteps, gsteps, epoch_batches, rendered, files>>
    /\ UNCHANGED <<ctl, nets>>

\* lines 127-132
BuildBatch ==
    /\ pc = "L127"
    /\ X' = Concatenate(image_batch, generated_images)
    /\ y_dis' = AssignPrefix(Zeros(2 * batch_size), batch_size, RealLabel)
    /\ pc' = "L135"
    /\ UNCHANGED <<noise, image_batch, generated_images, y_gen>>
    /\ UNCHANGED <<ctl, nets, hist>>

\* (variant: line 135 missing)
SetTrainableTrue_Omitted ==
    /\ pc = "L135"
    /\ pc' = "L136"
    /\ UNCHANGED <<ctl, nets, data, hist>>

\* line 135
SetTrainableTrue ==
    /\ pc = "L135"
    /\ trainable' = [trainable EXCEPT !["discriminator"] = TRUE]
    /\ toggles' = toggles + 1
    /\ pc' = "L136"
    /\ UNCHANGED <<created, adam, optimizer, collected, gen_params, dis_params>>
    /\ UNCHANGED <<log, dsteps, gsteps, epoch_batches, rendered, files>>
    /\ UNCHANGED <<ctl, data>>

\* one optimizer update of model m on a batch of `rows` rows with `labels`
TrainOnBatch(m, rows, labels) ==
    \E upd \in UpdateSets(m) :
        /\ gen_params' = IF "generator" \in upd THEN gen_params + 1 ELSE gen_params
        /\ dis_params' = IF "discriminator" \in upd THEN dis_params + 1 ELSE dis_params

\* (variant: line 136 missing)
DiscriminatorStep_Omitted ==
    /\ pc = "L136"
    /\ pc' = "L139"
    /\ UNCHANGED <<ctl, nets, data, hist>>

\* line 136
DiscriminatorStep ==
    /\ pc = "L136"
    /\ IF Len(X) = Len(y_dis)
          THEN /\ TrainOnBatch("discriminator", X, y_dis)
               /\ dsteps' = dsteps + 1
               /\ log' = Append(log, "dstep")
               /\ pc' = "L139"
          ELSE /\ UNCHANGED <<gen_params, dis_params, dsteps, log>>
               /\ pc' = "raised"
    /\ UNCHANGED <<created, adam, optimizer, trainable, collected>>
    /\ UNCHANGED <<toggles, gsteps, epoch_batches, rendered, files>>
    /\ UNCHANGED <<ctl, data>>

\* lines 139-140
DrawNoise ==
    /\ pc = "L139"
    /\ noise' = NormalRows(batch_size)
    /\ y_gen' = Ones(batch_size)
    /\ log' = Append(log, "noise")
    /\ pc' = "L141"
    /\ UNCHANGED <<image_batch, generated_images, X, y_dis>>
    /\ UNCHANGED <<toggles, dsteps, gsteps, epoch_batches, rendered, files>>
    /\ UNCHANGED <<ctl, nets>>

\* (variant: line 141 missing)
SetTrainableFalse_Omitted ==
    /\ pc = "L141"
    /\ pc' = "L142"
    /\ UNCHANGED <<ctl, nets, data, hist>>

\* line 141
SetTrainableFalse ==
    /\ pc = "L141"
    /\ trainable' = [trainable EXCEPT !["discriminator"] = FALSE]
    /\ toggles' = toggles + 1
    /\ pc' = "L142"
    /\ UNCHANGED <<created, adam, optimizer, collected, gen_params, dis_params>>
    /\ UNCHANGED <<log, dsteps, gsteps, epoch_batches, rendered, files>>
    /\ UNCHANGED <<ctl, data>>

\* line 142
GanStep ==
    /\ pc = "L142"
    /\ IF Len(noise) = Len(y_gen)
          THEN /\ TrainOnBatch("gan", noise, y_gen)
               /\ gsteps' = gsteps + 1
               /\ epoch_batches' = epoch_batches + 1
               /\ log' = Append(log, "gstep")
               /\ pc' = "L120"
          ELSE /\ UNCHANGED <<gen_params, dis_params, gsteps, epoch_batches, log>>
               /\ pc' = "raised"
    /\ UNCHANGED <<created, adam, optimizer, trainable, collected>>
    /\ UNCHANGED <<toggles, dsteps, rendered, files>>
    /\ UNCHANGED <<ctl, data>>

\* line 144
Checkpoint ==
    /\ pc = "L144"
    /\ pc' = IF IsCheckpoint(e) THEN "L145" ELSE "L118"
    /\ UNCHANGED <<ctl, nets, data, hist>>

\* line 145: plot_generated_images(e, generator) (lines 92-103)
PlotGeneratedImages ==
    /\ pc = "L145"
    /\ rendered' = Append(rendered, e)
    /\ files' = files \cup {e}
    /\ pc' = "L118"
    /\ UNCHANGED <<log, toggles, dsteps, gsteps, epoch_batches>>
    /\ UNCHANGED <<ctl, nets, data>>

\* lines 148-149: the script run as a program
Main ==
    /\ pc = "idle"
    /\ entry' = "main"
    /\ epochs' = MainEpochs
    /\ batch_size' = MainBatchSize
    /\ pc' = "L108"
    /\ UNCHANGED <<supplied, x_rows, batch_count, e, b>>
    /\ UNCHANGED <<nets, data, hist>>

Next ==
    \/ \E c \in Calls : TrainCall(c[1], c[2])
    \/ (supplied = SmokeRows /\ Main)
    \/ LoadData
    \/ BatchCount
    \/ GetOptimizer
    \/ GetGenerator
    \/ GetDiscriminator
    \/ GetGanNetwork
    \/ EpochLoop
    \/ BatchLoop
    \/ DrawBatch
    \/ GeneratorPredict
    \/ BuildBatch
    \/ SetTrainableTrue
    \/ DiscriminatorStep
    \/ DrawNoise
    \/ SetTrainableFalse
    \/ GanStep
    \/ Checkpoint
    \/ PlotGeneratedImages

Spec == Init /\ [][Next]_vars

----------------------------------------------------------------------------
(* Properties *)

D == "discriminator"

\* program points outside the body of a batch step, once the networks exist
BetweenBatches == {"L118", "L120", "L144", "L145", "done"}

BatchOrder == <<"noise", "predict", "dstep", "noise", "gstep">>

\* C1: every batch step is: first noise draw and generator predict, then one
\* Discriminator optimizer step, then the second noise draw, then one
\* Composite optimizer step as its last action; the events of a batch step in
\* progress are a prefix of that order, a finished batch step has all of them,
\* and between batch steps as many Discriminator as Composite steps were made.
BatchStepOrder ==
    /\ \E k \in 0..Len(BatchOrder) : log = SubSeq(BatchOrder, 1, k)
    /\ (pc \in BetweenBatches /\ dsteps + gsteps > 0 => log = BatchOrder)
    /\ (pc \in BetweenBatches => dsteps = gsteps)
    /\ (pc \in {"L139", "L141", "L142"} => dsteps = gsteps + 1)
    /\ (pc = "raised" => dsteps = 0 /\ gsteps = 0)

BatchStepOrderWitness ==
    pc = "L120" /\ b = 2 /\ log = BatchOrder /\ dsteps = 2 /\ gsteps = 2

\* C2: a Composite optimizer step (gan.train_on_batch) leaves the
\* Discriminator's parameters as they were and changes the Generator's, in
\* every batch of every epoch.
GeneratorOnlyUpdate ==
    [][gsteps' # gsteps => dis_params' = dis_params /\ gen_params' # gen_params]_vars

GeneratorOnlyUpdateWitness ==
    pc = "L120" /\ e = 2 /\ b = 2 /\ gsteps = batch_count + 2 /\ gen_params = gsteps + 1

\* C3: a Discriminator optimizer step runs with the flag true, changes the
\* Discriminator's parameters and leaves the Generator's; the Generator's
\* parameters, once created at line 114, change in no step other than the
\* Composite optimizer step of line 142.
DiscriminatorOnlyUpdate ==
    [][/\ dsteps' # dsteps =>
            trainable[D] /\ dis_params' # dis_params /\ gen_params' = gen_params
       /\ gen_params' # gen_params => pc \in {"L114", "L142"}]_vars

DiscriminatorOnlyUpdateWitness ==
    pc = "L139" /\ e = 2 /\ Len(rendered) = 1 /\ dis_params = dsteps + 1
        /\ gen_params = gsteps + 1 /\ dsteps = gsteps + 1

\* C4: the Discriminator's trainable flag is true at every Discriminator step
\* and false at every Composite step; a batch step assigns it twice, first
\* true and then false; it is false once get_gan_network has returned and
\* whenever no batch step is in progress.
TrainableFlagDiscipline ==
    /\ (pc = "L136" => trainable[D] /\ toggles = 1)
    /\ (pc = "L142" => ~trainable[D] /\ toggles = 2)
    /\ (pc \in BetweenBatches => ~trainable[D])
    /\ (pc \in BetweenBatches /\ dsteps > 0 => toggles = 2)
    /\ toggles \in 0..2
    /\ (pc \in {"L122", "L126", "L127", "L135"} => toggles = 0 /\ ~trainable[D])
    /\ (pc \in {"L136", "L139", "L141"} => toggles = 1 /\ trainable[D])

TrainableFlagDisciplineWitness ==
    pc = "L120" /\ b = 2 /\ toggles = 2 /\ ~trainable[D] /\ dsteps = 2

\* C5: for batch_size B >= 1 the batch given to the Discriminator step has
\* 2B rows, the B real rows first and the B generated rows after them, its
\* labels have length 2B with 0.9 on the first B and 0.0 on the rest; the
\* labels given to the Composite step have length B and are all 1.0.
BatchAndLabels ==
    /\ (pc = "L136" =>
            /\ batch_size >= 1
            /\ Len(X) = 2 * batch_size
            /\ Len(y_dis) = 2 * batch_size
            /\ \A i \in 1..batch_size :
                    /\ X[i] = "real"
                    /\ X[batch_size + i] = "fake"
                    /\ y_dis[i] = 9
                    /\ y_dis[batch_size + i] = 0)
    /\ (pc = "L142" =>
            /\ Len(noise) = batch_size
            /\ Len(y_gen) = batch_size
            /\ \A i \in 1..batch_size : y_gen[i] = 10)

BatchAndLabelsWitness ==
    pc = "L142" /\ batch_size = 2 /\ X = <<"real", "real", "fake", "fake">>
        /\ y_dis = <<9, 9, 0, 0>> /\ y_gen = <<10, 10>>

ScheduledEpoch(i) == i = 1 \/ i % 20 = 0

\* the scheduled epochs among 1..k, in order
Schedule(k) == SelectSeq([i \in 1..k |-> i], ScheduledEpoch)

\* C6: plot_generated_images is called exactly for the epochs that are 1 or a
\* multiple of 20, once each and in order, each call after all batch steps of
\* its epoch and before the next epoch starts; a 45-epoch run renders exactly
\* epochs 1, 20 and 40.
CheckpointSchedule ==
    /\ (pc \in {"L118", "done"} => rendered = Schedule(e))
    /\ (pc \in {"L120", "L122", "L126", "L127", "L135", "L136", "L139", "L141",
                "L142", "L144", "L145"} => rendered = Schedule(e - 1))
    /\ (pc = "L145" => ScheduledEpoch(e) /\ b = batch_count
                          /\ epoch_batches = batch_count)
    /\ (pc = "done" /\ epochs = 45 => rendered = <<1, 20, 40>>)
    /\ files = {rendered[i] : i \in 1..Len(rendered)}

CheckpointScheduleWitness ==
    pc = "done" /\ epochs = 45 /\ rendered = <<1, 20, 40>> /\ files = {1, 20, 40}

\* C7: on N = x_train.shape[0] samples train(E, B) runs floor(N / B) batch
\* steps in each of exactly E epochs, so E * floor(N / B) Discriminator and as
\* many Composite steps, and then stops; until then it can always take its
\* next step; the entry point calls train(400, 128).
TrainRunLength ==
    /\ (pc \notin {"idle", "L108", "L110", "raised"} =>
            /\ batch_count * batch_size <= x_rows
            /\ x_rows < (batch_count + 1) * batch_size)
    /\ e <= epochs
    /\ (pc = "L144" => epoch_batches = batch_count)
    /\ (pc = "done" =>
            /\ e = epochs
            /\ dsteps = epochs * batch_count
            /\ gsteps = epochs * batch_count
            /\ ~ENABLED Next)
    /\ (pc \notin {"done", "raised"} => ENABLED Next)
    /\ (entry = "main" => epochs = 400 /\ batch_size = 128)

TrainRunLengthWitness ==
    pc = "done" /\ epochs = 1 /\ batch_size = 128 /\ batch_count = 468
        /\ dsteps = 468 /\ gsteps = 468

\* C8: no two of the three compiled networks hold the same optimizer instance.
OwnOptimizerEach ==
    \A m1, m2 \in Models :
        m1 # m2 /\ optimizer[m1] # 0 /\ optimizer[m2] # 0
            => optimizer[m1] # optimizer[m2]

\* C9: train(1, 2) on a provider that supplies 4 samples does not raise, and
\* when it has ended it has made 2 batch steps and written one file.
SmokeRunCompletes ==
    supplied = 4 /\ epochs = 1 /\ batch_size = 2 =>
        /\ pc # "raised"
        /\ (pc = "done" => gsteps = 2 /\ dsteps = 2 /\ Cardinality(files) = 1)

\* C10: with batch_size above the dataset size and epochs >= 1 no optimizer
\* step is ever made and both networks keep their initial parameters, yet the
\* completed run has rendered epoch 1 and every multiple of 20; with epochs = 0
\* a completed run has made no optimizer step and rendered nothing.
ZeroBatchRun ==
    /\ (x_rows > 0 /\ batch_size > x_rows /\ pc \in BetweenBatches =>
            /\ dsteps = 0 /\ gsteps = 0
            /\ gen_params = 1 /\ dis_params = 1
            /\ (epochs >= 1 /\ pc = "done" =>
                    /\ rendered[1] = 1
                    /\ \A k \in 1..epochs :
                          (k = 1 \/ k % 20 = 0)
                              <=> \E i \in 1..Len(rendered) : rendered[i] = k))
    /\ (x_rows > 0 /\ batch_size > x_rows => pc \notin {"L122", "L126", "L127",
                          "L135", "L136", "L139", "L141", "L142", "raised"})
    /\ (pc = "done" /\ epochs = 0 =>
            dsteps = 0 /\ gsteps = 0 /\ rendered = <<>> /\ files = {})

ZeroBatchRunWitness ==
    pc = "done" /\ batch_size > x_rows /\ epochs = 40 /\ rendered = <<1, 20, 40>>
        /\ gen_params = 1 /\ dis_params = 1 /\ dsteps = 0

====
